---- MODULE Spec2Model ----
(***************************************************************************)
(* The acquisition engine of src/onboard/logger.c ("virtual oscilloscope"):*)
(* vscopeInit, saveFrameToBuffer, vscopeAcquire (the sampling tick) and    *)
(* vscopeTrigger, together with the host, which reads and writes the       *)
(* fields of the shared structure `vscope` between two calls.              *)
(*                                                                         *)
(* The tick and the trigger are atomic steps (the tick is non-reentrant    *)
(* and every cross-context field is one scalar); the host's writes         *)
(* interleave freely with them.                                            *)
(***************************************************************************)
EXTENDS Integers, Naturals, Sequences, FiniteSets, TLC

(* ------------------------------ bounds -------------------------------- *)

\* Largest VSCOPE_DEFAULT_BUFFER_SIZE of the builds explored (rows of vscope.buffer).
MaxBufferSize == 3

\* Number of channel slots explored: the first NumChannels of the bindings made by vscopeInit.
NumChannels == 2

\* Largest divisor the host writes to vscope.divider.
MaxDivider == 2

\* Largest value the capped run counter takes once the host has moved acq_time below it.
MaxRunIndex == 4

(* --------------------------- program constants ------------------------ *)

\* uint16_t arithmetic of index, divider and run_index.
Uint16 == 65536

\* The storage budget of the builds explored: the largest default buffer size
\* overflows it, the one below it fills it exactly.
VSCOPE_MEMORY == NumChannels * (MaxBufferSize - 1)

VSCOPE_HALTED == "Halted"

VSCOPE_RUNNING == "Running"

VSCOPE_ACQUIRING == "Acquiring"

VSCOPE_MISCONFIGURED == "Misconfigured"

VscopeState == {VSCOPE_HALTED, VSCOPE_RUNNING, VSCOPE_ACQUIRING, VSCOPE_MISCONFIGURED}

\* The values the host writes to vscope.request.
Requests == {VSCOPE_HALTED, VSCOPE_RUNNING, VSCOPE_ACQUIRING}

\* The builds explored: VSCOPE_DEFAULT_BUFFER_SIZE.
BufferSizes == 1..MaxBufferSize

\* The values the host writes to vscope.acq_time.
AcqTimes == 0..(MaxBufferSize - 1)

Divisors == 1..MaxDivider

Channels == 0..(NumChannels - 1)

Rows == 0..(MaxBufferSize - 1)

\* Sample numbers are kept modulo SampleMod, which exceeds every buffer size.
SampleMod == MaxBufferSize + 1

\* The ghost frame counter saturates here.
MaxCaptured == 2 * MaxBufferSize

\* CONFIGURE_CHANNEL(name, ch): the variable bound to each channel slot, in slot order.
ChannelSource ==
    << "voltage_setpoint", "voltage_limit", "voltage_measurement",
       "current_measurement", "voltage_limit", "temperature", "frequency",
       "duration", "threshold", "phase" >>

\* vscope.frame after vscopeInit: slot ch points to its variable.
frame == [ch \in Channels |-> ChannelSource[ch + 1]]

\* A cell of vscope.buffer after memset.
ZeroValue == << "zero", 0 >>

ZeroFrame == [ch \in Channels |-> ZeroValue]

\* VscopeRtBufferIndexes: the runtime parameters vscopeInit seeds.
RtIndexes == {"PI_KP", "PI_KI"}

\* The floats a runtime parameter takes: zero, the two defaults, one more.
RtValues == {"0.0f", "0.1f", "0.5f", "2.0f"}

VARIABLES
    pc,             \* "boot" before vscopeInit has run, "run" after
    state,          \* vscope.state
    request,        \* vscope.request
    buffer_size,    \* vscope.buffer_size
    pre_trig,       \* vscope.pre_trig
    vdivider,       \* vscope.divider
    acq_time,       \* vscope.acq_time
    index,          \* vscope.index, the write cursor
    first_element,  \* vscope.first_element
    buffer,         \* vscope.buffer
    divider,        \* static divider of vscopeAcquire
    run_index,      \* static run_index of vscopeAcquire
    sample_no,      \* the sample the bound variables hold: each captured frame reads a fresh one
    captured,       \* ghost: frames captured since Running or Acquiring was entered
    calls,          \* ghost: calls of vscopeAcquire since the last evaluated one
    acq_written,    \* ghost: the host wrote acq_time during the current Acquiring window
    rt_buffer,      \* rt_buffer, the runtime parameters
    script          \* ghost: how far the host has come in the worked example

vars ==
    << pc, state, request, buffer_size, pre_trig, vdivider, acq_time, index,
       first_element, buffer, divider, run_index, sample_no, captured, calls,
       acq_written, rt_buffer, script >>

ghosts == << captured, calls, acq_written, script >>

\* *vscope.frame[ch]: the current value of the variable bound to slot ch.
Sample(ch) == << frame[ch], sample_no >>

CurrentFrame == [ch \in Channels |-> Sample(ch)]

Min(a, b) == IF a < b THEN a ELSE b

(* ------------------------------ start --------------------------------- *)

\* Static storage before vscopeInit: every field is zero; which enumerator
\* of the state type is zero is the header's choice.
Init ==
    /\ pc = "boot"
    /\ \E z \in VscopeState : state = z /\ request = z
    /\ buffer_size = 0
    /\ pre_trig = 0
    /\ vdivider = 0
    /\ acq_time = 0
    /\ index = 0
    /\ first_element = 0
    /\ buffer = [r \in Rows |-> ZeroFrame]
    /\ divider = 0
    /\ run_index = 0
    /\ sample_no = 0
    /\ captured = 0
    /\ calls = 0
    /\ acq_written = FALSE
    /\ rt_buffer = [i \in RtIndexes |-> "0.0f"]
    /\ script = 0

(* --------------------------- vscopeInit ------------------------------- *)

\* Mutant: the capacity check refuses a buffer that fills the budget exactly.
InitStateStrict(size) ==
    IF (size * NumChannels) >= VSCOPE_MEMORY THEN VSCOPE_MISCONFIGURED ELSE VSCOPE_HALTED

\* The capacity check of vscopeInit: the state a build of this buffer size starts in.
InitState(size) ==
    IF (size * NumChannels) > VSCOPE_MEMORY THEN VSCOPE_MISCONFIGURED ELSE VSCOPE_HALTED

\* vscope.acq_time as vscopeInit computes it.
InitAcqTime(size, pretrig) == size - pretrig

\* vscopeInit, for a build whose VSCOPE_DEFAULT_BUFFER_SIZE is `size`. It leaves
\* vscope.index, vscope.first_element and the statics of vscopeAcquire alone.
vscopeInit ==
    /\ pc = "boot"
    /\ \E size \in BufferSizes :
        /\ buffer_size' = size
        /\ state' = InitState(size)
        /\ acq_time' = InitAcqTime(size, 0)
    /\ request' = VSCOPE_HALTED
    /\ pre_trig' = 0
    /\ vdivider' = 1
    /\ buffer' = [r \in Rows |-> ZeroFrame]
    /\ rt_buffer' = [[rt_buffer EXCEPT !["PI_KP"] = "0.5f"] EXCEPT !["PI_KI"] = "0.1f"]
    /\ pc' = "run"
    /\ UNCHANGED << index, first_element, divider, run_index, sample_no, ghosts >>

(* ------------------------- saveFrameToBuffer -------------------------- *)

\* Mutant: the cursor wraps one row late.
NextIndexLate(i) ==
    IF (i + 1) % Uint16 > buffer_size THEN 0 ELSE (i + 1) % Uint16

\* Mutant: the cursor never wraps.
NextIndexNoWrap(i) == (i + 1) % Uint16

\* The cursor after one frame: one further, back to zero on reaching buffer_size.
NextIndex(i) ==
    IF (i + 1) % Uint16 = buffer_size THEN 0 ELSE (i + 1) % Uint16

\* saveFrameToBuffer: every channel slot's current value goes to row
\* vscope.index, then the cursor advances. The bound variables hold the next
\* sample when the next frame is read.
saveFrameToBuffer ==
    /\ index \in DOMAIN buffer
    /\ buffer' = [buffer EXCEPT ![index] = CurrentFrame]
    /\ index' = NextIndex(index)
    /\ sample_no' = (sample_no + 1) % SampleMod

(* --------------------------- vscopeAcquire ---------------------------- *)

\* The static divider after its increment.
Bumped == (divider + 1) % Uint16

\* Mutant: the gate also turns away the call on which the counter reaches the divisor.
GatedInclusive(d) == d <= vdivider

\* The decimation gate: the call returns early while the counter is below vscope.divider.
Gated(d) == d < vdivider

\* A call the gate turns away: only the static divider moves.
AcquireSkipped ==
    /\ pc = "run"
    /\ Gated(Bumped)
    /\ divider' = Bumped
    /\ calls' = calls + 1
    /\ UNCHANGED << pc, state, request, buffer_size, pre_trig, vdivider, acq_time,
                    index, first_element, buffer, run_index, sample_no, captured,
                    acq_written, rt_buffer, script >>

\* Mutant: the tick that ends a window takes the request back to Halted.
EvaluatedClearsRequest ==
    /\ pc = "run"
    /\ ~Gated(Bumped)
    /\ divider' = 0
    /\ calls' = 0
    /\ request' =
        IF state = VSCOPE_ACQUIRING /\ run_index = acq_time
        THEN VSCOPE_HALTED ELSE request
    /\ UNCHANGED << pc, buffer_size, pre_trig, vdivider, acq_time, rt_buffer, script >>

\* A call the gate lets through resets the static divider.
Evaluated ==
    /\ pc = "run"
    /\ ~Gated(Bumped)
    /\ divider' = 0
    /\ calls' = 0
    /\ UNCHANGED << pc, request, buffer_size, pre_trig, vdivider, acq_time,
                    rt_buffer, script >>

\* Mutant: the cursor is cleared only while the engine stays halted.
AcquireHaltedKeepsCursor ==
    /\ Evaluated
    /\ state = VSCOPE_HALTED
    /\ index' = IF request = VSCOPE_RUNNING THEN index ELSE 0
    /\ state' = IF request = VSCOPE_RUNNING THEN VSCOPE_RUNNING ELSE state
    /\ captured' = 0
    /\ acq_written' = FALSE
    /\ UNCHANGED << first_element, buffer, run_index, sample_no >>

\* Mutant: a halted engine follows a request to acquire as well.
AcquireHaltedFollowsRequest ==
    /\ Evaluated
    /\ state = VSCOPE_HALTED
    /\ index' = 0
    /\ state' = IF request \in {VSCOPE_RUNNING, VSCOPE_ACQUIRING} THEN request ELSE state
    /\ captured' = 0
    /\ acq_written' = FALSE
    /\ UNCHANGED << first_element, buffer, run_index, sample_no >>

\* Mutant: a halted engine clears first_element together with the cursor.
AcquireHaltedClearsFirst ==
    /\ Evaluated
    /\ state = VSCOPE_HALTED
    /\ index' = 0
    /\ first_element' = 0
    /\ state' = IF request = VSCOPE_RUNNING THEN VSCOPE_RUNNING ELSE state
    /\ captured' = 0
    /\ acq_written' = FALSE
    /\ UNCHANGED << buffer, run_index, sample_no >>

\* Mutant: the tick that leaves Halted captures a frame already.
AcquireHaltedCaptures ==
    /\ Evaluated
    /\ state = VSCOPE_HALTED
    /\ state' = IF request = VSCOPE_RUNNING THEN VSCOPE_RUNNING ELSE state
    /\ IF request = VSCOPE_RUNNING
       THEN /\ buffer' = [buffer EXCEPT ![0] = CurrentFrame]
            /\ index' = NextIndex(0)
            /\ sample_no' = (sample_no + 1) % SampleMod
       ELSE /\ index' = 0
            /\ UNCHANGED << buffer, sample_no >>
    /\ captured' = 0
    /\ acq_written' = FALSE
    /\ UNCHANGED << first_element, run_index >>

\* case VSCOPE_HALTED
AcquireHalted ==
    /\ Evaluated
    /\ state = VSCOPE_HALTED
    /\ index' = 0
    /\ state' = IF request = VSCOPE_RUNNING THEN VSCOPE_RUNNING ELSE state
    /\ captured' = 0
    /\ acq_written' = FALSE
    /\ UNCHANGED << first_element, buffer, run_index, sample_no >>

\* The state case VSCOPE_RUNNING leaves behind.
RunningState(req, acq) ==
    IF req = VSCOPE_ACQUIRING
    THEN IF acq = 0 THEN VSCOPE_HALTED ELSE VSCOPE_ACQUIRING
    ELSE IF req = VSCOPE_HALTED THEN VSCOPE_HALTED ELSE VSCOPE_RUNNING

\* vscope.first_element after case VSCOPE_RUNNING: the cursor, taken before the
\* frame of this tick is saved, when the window is empty.
RunningFirstElement(req, acq) ==
    IF req = VSCOPE_ACQUIRING /\ acq = 0 THEN index ELSE first_element

\* Mutant: the run counter is armed at zero.
RunningRunIndexZero(req, acq) ==
    IF req = VSCOPE_ACQUIRING /\ acq # 0 THEN 0 ELSE run_index

\* The static run_index after case VSCOPE_RUNNING: armed at 1 on the way to Acquiring.
RunningRunIndex(req, acq) ==
    IF req = VSCOPE_ACQUIRING /\ acq # 0 THEN 1 ELSE run_index

\* case VSCOPE_RUNNING: the request is looked at, then saveFrameToBuffer is
\* called whatever the request was.
AcquireRunning ==
    /\ Evaluated
    /\ state = VSCOPE_RUNNING
    /\ state' = RunningState(request, acq_time)
    /\ first_element' = RunningFirstElement(request, acq_time)
    /\ run_index' = RunningRunIndex(request, acq_time)
    /\ saveFrameToBuffer
    /\ captured' =
        IF state' = VSCOPE_HALTED THEN 0
        ELSE IF state' = VSCOPE_ACQUIRING THEN 1
        ELSE Min(captured + 1, MaxCaptured)
    /\ acq_written' = FALSE

\* Mutant: the window ends one tick late.
WindowDoneLate(run, acq) == run > acq

\* The end test of case VSCOPE_ACQUIRING.
WindowDone(run, acq) == run = acq

\* Mutant: the run counter is not advanced with the frame.
AcquireAcquiringForgetsCount ==
    /\ Evaluated
    /\ state = VSCOPE_ACQUIRING
    /\ IF WindowDone(run_index, acq_time)
       THEN /\ state' = VSCOPE_HALTED
            /\ first_element' = index
            /\ UNCHANGED << index, buffer, run_index, sample_no, captured >>
       ELSE /\ saveFrameToBuffer
            /\ captured' = Min(captured + 1, MaxCaptured)
            /\ UNCHANGED << state, first_element, run_index >>
    /\ UNCHANGED acq_written

\* case VSCOPE_ACQUIRING. The run counter passes acq_time only when the host
\* lowers acq_time inside the window; from there on it is capped at MaxRunIndex.
AcquireAcquiring ==
    /\ Evaluated
    /\ state = VSCOPE_ACQUIRING
    /\ IF WindowDone(run_index, acq_time)
       THEN /\ state' = VSCOPE_HALTED
            /\ first_element' = index
            /\ UNCHANGED << index, buffer, run_index, sample_no, captured >>
       ELSE /\ run_index < acq_time \/ run_index < MaxRunIndex
            /\ run_index' = (run_index + 1) % Uint16
            /\ saveFrameToBuffer
            /\ captured' = Min(captured + 1, MaxCaptured)
            /\ UNCHANGED << state, first_element >>
    /\ UNCHANGED acq_written

\* Mutant: a misconfigured engine follows a request to run.
AcquireMisconfiguredRuns ==
    /\ Evaluated
    /\ state = VSCOPE_MISCONFIGURED
    /\ state' = IF request = VSCOPE_RUNNING THEN VSCOPE_RUNNING ELSE state
    /\ UNCHANGED << index, first_element, buffer, run_index, sample_no,
                    captured, acq_written >>

\* default: nothing happens when misconfigured.
AcquireMisconfigured ==
    /\ Evaluated
    /\ state = VSCOPE_MISCONFIGURED
    /\ UNCHANGED << state, index, first_element, buffer, run_index, sample_no,
                    captured, acq_written >>

\* A call of vscopeAcquire that gets past the decimation gate.
QualifyingTick ==
    AcquireHalted \/ AcquireRunning \/ AcquireAcquiring \/ AcquireMisconfigured

vscopeAcquire ==
    \/ AcquireSkipped
    \/ AcquireHalted
    \/ AcquireRunning
    \/ AcquireAcquiring
    \/ AcquireMisconfigured

(* --------------------------- vscopeTrigger ---------------------------- *)

\* Mutant: the trigger is taken in every state but Halted.
TriggerRequestEager(st, req) == IF st # VSCOPE_HALTED THEN VSCOPE_ACQUIRING ELSE req

\* The request vscopeTrigger leaves behind.
TriggerRequest(st, req) == IF st = VSCOPE_RUNNING THEN VSCOPE_ACQUIRING ELSE req

vscopeTrigger ==
    /\ pc = "run"
    /\ request' = TriggerRequest(state, request)
    /\ UNCHANGED << pc, state, buffer_size, pre_trig, vdivider, acq_time, index,
                    first_element, buffer, divider, run_index, sample_no, ghosts,
                    rt_buffer >>

(* ------------------------------ the host ------------------------------ *)

\* The host stores a request in vscope.request.
HostWriteRequest ==
    /\ pc = "run"
    /\ \E r \in Requests : request' = r
    /\ UNCHANGED << pc, state, buffer_size, pre_trig, vdivider, acq_time, index,
                    first_element, buffer, divider, run_index, sample_no, ghosts,
                    rt_buffer >>

\* The host stores the length of the acquisition window in vscope.acq_time.
HostWriteAcqTime ==
    /\ pc = "run"
    /\ \E a \in AcqTimes : acq_time' = a
    /\ acq_written' =
        IF acq_time' # acq_time /\ (state = VSCOPE_ACQUIRING \/ captured > 0)
        THEN TRUE ELSE acq_written
    /\ UNCHANGED << pc, state, request, buffer_size, pre_trig, vdivider, index,
                    first_element, buffer, divider, run_index, sample_no, captured,
                    calls, rt_buffer, script >>

\* The host stores a divisor in vscope.divider.
HostWriteDivider ==
    /\ pc = "run"
    /\ \E d \in Divisors : vdivider' = d
    /\ UNCHANGED << pc, state, request, buffer_size, pre_trig, acq_time, index,
                    first_element, buffer, divider, run_index, sample_no, ghosts,
                    rt_buffer >>

Host == HostWriteRequest \/ HostWriteAcqTime \/ HostWriteDivider

Next == vscopeInit \/ vscopeAcquire \/ vscopeTrigger \/ Host

Spec == Init /\ [][Next]_vars

(* ------------------------- runtime parameters -------------------------- *)

\* The fields and statics of the acquisition engine: all but rt_buffer.
acquisition ==
    << pc, state, request, buffer_size, pre_trig, vdivider, acq_time, index,
       first_element, buffer, divider, run_index, sample_no >>

\* return rt_buffer[index];
vscopeGetRtBuffer(i) == rt_buffer[i]

\* Mutant: the store lands on the other parameter.
SetRtOther(i, v) ==
    /\ pc = "run"
    /\ rt_buffer' = [j \in RtIndexes |-> IF j # i THEN v ELSE rt_buffer[j]]
    /\ UNCHANGED << acquisition, ghosts >>

\* rt_buffer[index] = value;
SetRt(i, v) ==
    /\ pc = "run"
    /\ rt_buffer' = [rt_buffer EXCEPT ![i] = v]
    /\ UNCHANGED << acquisition, ghosts >>

vscopeSetRtBuffer == \E i \in RtIndexes, v \in RtValues : SetRt(i, v)

\* The engine with its window left as vscopeInit computed it, and the host
\* setting runtime parameters through vscopeSetRtBuffer.
NextRt ==
    \/ vscopeInit
    \/ vscopeAcquire
    \/ vscopeTrigger
    \/ HostWriteRequest
    \/ HostWriteDivider
    \/ vscopeSetRtBuffer

SpecRt == Init /\ [][NextRt]_vars

(* ------------------------- repeated ticking ---------------------------- *)

\* The host leaves the window and the divisor alone while an acquisition is
\* under way.
HostWriteAcqTimeOutsideWindow == state # VSCOPE_ACQUIRING /\ HostWriteAcqTime

HostWriteDividerOutsideWindow == state # VSCOPE_ACQUIRING /\ HostWriteDivider

NextLive ==
    \/ vscopeInit
    \/ vscopeAcquire
    \/ vscopeTrigger
    \/ HostWriteRequest
    \/ HostWriteAcqTimeOutsideWindow
    \/ HostWriteDividerOutsideWindow

\* The control loop keeps calling vscopeAcquire.
SpecLive == Init /\ [][NextLive]_vars /\ WF_vars(vscopeAcquire)

(* --------------------------- worked example ---------------------------- *)

ExampleRows == 0..7

\* The state vscopeInit leaves in a build with VSCOPE_DEFAULT_BUFFER_SIZE = 8
\* that fits the storage: Halted, no pre-trigger, a window of 8 frames,
\* divisor 1. The bound variables hold any of their values.
InitExample ==
    /\ pc = "run"
    /\ state = VSCOPE_HALTED
    /\ request = VSCOPE_HALTED
    /\ buffer_size = 8
    /\ pre_trig = 0
    /\ vdivider = 1
    /\ acq_time = InitAcqTime(8, 0)
    /\ index = 0
    /\ first_element = 0
    /\ buffer = [r \in ExampleRows |-> ZeroFrame]
    /\ divider = 0
    /\ run_index = 0
    /\ sample_no \in 0..(SampleMod - 1)
    /\ captured = 0
    /\ calls = 0
    /\ acq_written = FALSE
    /\ rt_buffer = [[i \in RtIndexes |-> "0.0f"] EXCEPT !["PI_KP"] = "0.5f", !["PI_KI"] = "0.1f"]
    /\ script = 0

\* The host writes request = Running.
ExampleHostRun ==
    /\ script = 0
    /\ request' = VSCOPE_RUNNING
    /\ script' = 1
    /\ UNCHANGED << pc, state, buffer_size, pre_trig, vdivider, acq_time, index,
                    first_element, buffer, divider, run_index, sample_no,
                    captured, calls, acq_written, rt_buffer >>

\* vscopeTrigger, called once while running: script 2 when it comes right
\* after the first tick as in the example, 3 when it comes later.
ExampleTrigger ==
    /\ script = 1
    /\ state = VSCOPE_RUNNING
    /\ request' = TriggerRequest(state, request)
    /\ script' = IF captured = 0 THEN 2 ELSE 3
    /\ UNCHANGED << pc, state, buffer_size, pre_trig, vdivider, acq_time, index,
                    first_element, buffer, divider, run_index, sample_no,
                    captured, calls, acq_written, rt_buffer >>

\* With divisor 1 every call of vscopeAcquire is a qualifying tick, and the
\* engine is never Misconfigured.
NextExample ==
    \/ ExampleHostRun
    \/ ExampleTrigger
    \/ AcquireHalted
    \/ AcquireRunning
    \/ AcquireAcquiring

SpecExample == InitExample /\ [][NextExample]_vars

(* ------------------------ runtime configuration ------------------------ *)

PreTrigs == 0..(MaxBufferSize - 1)

\* The host command handler stores a pre-trigger count into vscope.pre_trig.
HostWritePreTrig ==
    /\ pc = "run"
    /\ \E p \in PreTrigs : pre_trig' = p
    /\ UNCHANGED << pc, state, request, buffer_size, vdivider, acq_time, index,
                    first_element, buffer, divider, run_index, sample_no, ghosts,
                    rt_buffer >>

\* The host command handler stores a buffer size that fits the storage into
\* vscope.buffer_size, while the engine is halted.
HostWriteBufferSize ==
    /\ pc = "run"
    /\ state = VSCOPE_HALTED
    /\ \E size \in BufferSizes :
        /\ size * NumChannels <= VSCOPE_MEMORY
        /\ buffer_size' = size
    /\ UNCHANGED << pc, state, request, pre_trig, vdivider, acq_time, index,
                    first_element, buffer, divider, run_index, sample_no, ghosts,
                    rt_buffer >>

\* The engine with the host writing the configuration the window is said to
\* be computed from, and never acq_time itself.
NextCfg ==
    \/ vscopeInit
    \/ vscopeAcquire
    \/ vscopeTrigger
    \/ HostWriteRequest
    \/ HostWriteDivider
    \/ HostWritePreTrig
    \/ HostWriteBufferSize

SpecCfg == Init /\ [][NextCfg]_vars

(* ------------------------------ claims -------------------------------- *)

\* The frame a capture at this moment stores: slot ch holds the value of the
\* ch-th variable bound by vscopeInit.
FrameNow == [ch \in Channels |-> << ChannelSource[ch + 1], sample_no >>]

\* This step captures exactly one frame, at the row the cursor names.
CapturesOneFrame ==
    /\ \A ch \in Channels : buffer'[index][ch] = FrameNow[ch]
    /\ \A r \in Rows : r # index => buffer'[r] = buffer[r]
    /\ index' = (index + 1) % buffer_size

\* This step captures no frame.
CapturesNothing == buffer' = buffer /\ index' = index

\* C1: once vscopeInit has left the engine Misconfigured, no tick, trigger or
\* host write changes the state, the write cursor, first_element or the buffer.
C1_MisconfiguredIsInert ==
    [][ (pc = "run" /\ state = VSCOPE_MISCONFIGURED)
        => /\ state' = VSCOPE_MISCONFIGURED
           /\ index' = index
           /\ first_element' = first_element
           /\ buffer' = buffer ]_vars

\* A misconfigured engine that was asked to run and has been ticked.
C1_Witness ==
    /\ state = VSCOPE_MISCONFIGURED
    /\ request = VSCOPE_RUNNING
    /\ vdivider = 2
    /\ divider = 1

\* C2: vscopeInit leaves state = Halted exactly when buffer_size * channel
\* count <= storage budget and Misconfigured otherwise, and in both cases
\* request = Halted, pre_trig = 0, divider = 1, acq_time = buffer_size - pre_trig.
C2_InitOutcome ==
    [][ (pc = "boot" /\ pc' = "run")
        => /\ (state' = VSCOPE_HALTED) <=> (buffer_size' * NumChannels <= VSCOPE_MEMORY)
           /\ (state' = VSCOPE_MISCONFIGURED) <=> (buffer_size' * NumChannels > VSCOPE_MEMORY)
           /\ request' = VSCOPE_HALTED
           /\ pre_trig' = 0
           /\ vdivider' = 1
           /\ acq_time' = buffer_size' - pre_trig' ]_vars

\* Just initialised with a buffer that fills the storage budget exactly.
C2_Witness ==
    /\ pc = "run"
    /\ buffer_size * NumChannels = VSCOPE_MEMORY
    /\ state = VSCOPE_HALTED
    /\ request = VSCOPE_HALTED
    /\ acq_time = buffer_size
    /\ vdivider = 1

\* C3: a qualifying tick in Halted with request = Running moves to Running
\* with the cursor at 0 and captures nothing; the first frame captured after
\* that goes to row 0.
C3_RunStartsAtZero ==
    [][ /\ (QualifyingTick /\ state = VSCOPE_HALTED /\ request = VSCOPE_RUNNING)
            => /\ state' = VSCOPE_RUNNING
               /\ index' = 0
               /\ buffer' = buffer
               /\ sample_no' = sample_no
        /\ (QualifyingTick /\ state = VSCOPE_RUNNING /\ captured = 0)
            => /\ index = 0
               /\ \A ch \in Channels : buffer'[0][ch] = FrameNow[ch] ]_vars

\* Running, no frame captured yet, after an acquisition that stopped away from row 0.
C3_Witness ==
    /\ state = VSCOPE_RUNNING
    /\ captured = 0
    /\ index = 0
    /\ first_element # 0

\* C4: while state and request are Running every qualifying tick captures
\* exactly one frame at the cursor, in slot order, and advances the cursor by
\* one modulo buffer_size; after N such ticks the cursor is N mod buffer_size.
C4_RunningCapturesEveryTick ==
    /\ [][ (QualifyingTick /\ state = VSCOPE_RUNNING /\ request = VSCOPE_RUNNING)
            => /\ CapturesOneFrame
               /\ state' = VSCOPE_RUNNING ]_vars
    /\ [](pc = "run" /\ state = VSCOPE_RUNNING /\ captured < MaxCaptured
            => index = captured % buffer_size)

\* Free running has wrapped: more frames than rows, the second channel's value stored.
C4_Witness ==
    /\ state = VSCOPE_RUNNING
    /\ request = VSCOPE_RUNNING
    /\ buffer_size = 2
    /\ captured = 3
    /\ index = 1
    /\ buffer[0][1] = << "voltage_limit", (sample_no + SampleMod - 1) % SampleMod >>

\* C5: vscopeTrigger in Running sets request = Acquiring; with acq_time > 0
\* the next qualifying tick moves to Acquiring, arms the run counter at 1 and
\* captures one frame.
C5_TriggerArms ==
    [][ /\ (vscopeTrigger /\ state = VSCOPE_RUNNING) => request' = VSCOPE_ACQUIRING
        /\ (QualifyingTick /\ state = VSCOPE_RUNNING /\ request = VSCOPE_ACQUIRING
                /\ acq_time > 0)
            => /\ state' = VSCOPE_ACQUIRING
               /\ run_index' = 1
               /\ CapturesOneFrame ]_vars

\* Armed on the last tick: Acquiring with the counter at 1 and the window still open.
C5_Witness ==
    /\ state = VSCOPE_ACQUIRING
    /\ request = VSCOPE_ACQUIRING
    /\ run_index = 1
    /\ captured = 1
    /\ acq_time = 2

\* C6: in Running with request = Acquiring and acq_time = 0 the next
\* qualifying tick goes to Halted, records first_element = cursor and captures
\* no frame.
C6_EmptyWindowCapturesNothing ==
    [][ (QualifyingTick /\ state = VSCOPE_RUNNING /\ request = VSCOPE_ACQUIRING
            /\ acq_time = 0)
        => /\ state' = VSCOPE_HALTED
           /\ first_element' = index
           /\ CapturesNothing ]_vars

\* The row before the cursor holds the frame captured last.
LastFrameBeforeCursor ==
    buffer[(index + buffer_size - 1) % buffer_size] =
        [ch \in Channels |->
            << ChannelSource[ch + 1], (sample_no + SampleMod - 1) % SampleMod >>]

\* C7: a window with acq_time > 0 that the host leaves alone captures exactly
\* acq_time frames, the arming tick's included; the tick on which the run
\* counter equals acq_time captures nothing, goes to Halted and sets
\* first_element to the cursor, which is the row after the last captured frame.
C7_WindowIsExact ==
    /\ [][ /\ (QualifyingTick /\ state = VSCOPE_ACQUIRING /\ run_index = acq_time)
                => /\ state' = VSCOPE_HALTED
                   /\ first_element' = index
                   /\ CapturesNothing
                   /\ LastFrameBeforeCursor
           /\ (QualifyingTick /\ state = VSCOPE_ACQUIRING /\ ~acq_written)
                => IF captured = acq_time
                   THEN state' = VSCOPE_HALTED
                   ELSE state' = VSCOPE_ACQUIRING /\ CapturesOneFrame
                        /\ captured' = captured + 1 ]_vars
    /\ [](pc = "run" /\ state = VSCOPE_ACQUIRING /\ ~acq_written
            => acq_time > 0 /\ 1 <= captured /\ captured <= acq_time)

\* A two-frame window has just stopped, away from row 0.
C7_Witness ==
    /\ state = VSCOPE_HALTED
    /\ ~acq_written
    /\ captured = 2
    /\ acq_time = 2
    /\ first_element = index
    /\ index = 1

\* C8: in Running with request = Halted the next qualifying tick goes to
\* Halted without capturing a frame.
C8_HaltCapturesNothing ==
    [][ (QualifyingTick /\ state = VSCOPE_RUNNING /\ request = VSCOPE_HALTED)
        => /\ state' = VSCOPE_HALTED
           /\ CapturesNothing ]_vars

\* C9: vscopeTrigger in Halted, Acquiring or Misconfigured leaves request as
\* it is, and in every state it changes nothing but request.
C9_TriggerFrame ==
    [][ vscopeTrigger
        => /\ state # VSCOPE_RUNNING => request' = request
           /\ UNCHANGED << state, index, first_element, run_index, divider, buffer,
                           buffer_size, pre_trig, vdivider, acq_time >> ]_vars

\* A trigger arriving now would be ignored: Acquiring, the host has asked to halt.
C9_Witness ==
    /\ state = VSCOPE_ACQUIRING
    /\ request = VSCOPE_HALTED
    /\ run_index = 1

\* C10: with the divisor D >= 1 unchanged since the last evaluated call,
\* vscopeAcquire is evaluated on the D-th call exactly (and clears the
\* divider counter); every other call leaves the state, request, cursor,
\* first_element, run counter and buffer alone.
C10_DecimationGate ==
    [][ (vscopeAcquire /\ calls < vdivider)
        => IF calls + 1 = vdivider
           THEN QualifyingTick /\ divider' = 0
           ELSE /\ ~QualifyingTick
                /\ divider' = divider + 1
                /\ UNCHANGED << state, request, index, first_element, run_index,
                                buffer >> ]_vars

\* Divisor 2: free running has captured frames and the last call was turned away.
C10_Witness ==
    /\ vdivider = 2
    /\ calls = 1
    /\ divider = 1
    /\ state = VSCOPE_RUNNING
    /\ captured = 2

\* The rows read from `start` on, wrapping at buffer_size, hold the last
\* buffer_size frames captured, oldest first.
ReadsOldestFirst(start) ==
    \A k \in 0..(buffer_size - 1) :
        buffer[(start + k) % buffer_size] =
            [ch \in Channels |->
                << ChannelSource[ch + 1],
                   (sample_no + SampleMod - buffer_size + k) % SampleMod >>]

\* A triggered acquisition stops on this step: first_element is recorded.
TriggeredStop ==
    /\ QualifyingTick
    /\ state' = VSCOPE_HALTED
    /\ \/ state = VSCOPE_ACQUIRING
       \/ state = VSCOPE_RUNNING /\ request = VSCOPE_ACQUIRING

\* C12: when a triggered acquisition stops with the buffer holding the last
\* buffer_size frames, reading the rows from first_element on, wrapping at
\* buffer_size, yields them oldest first, whatever the window length.
C12_ChronologicalFromFirstElement ==
    [][ TriggeredStop
        => ((\E s \in 0..(buffer_size - 1) : ReadsOldestFirst(s)')
                => ReadsOldestFirst(first_element)') ]_vars

\* C15: a request to halt written while Running is not lost to a trigger
\* call, and the next qualifying tick that sees it leaves the state Halted.
C15_HaltRequestSurvivesTrigger ==
    [][ /\ (vscopeTrigger /\ state = VSCOPE_RUNNING /\ request = VSCOPE_HALTED)
            => request' = VSCOPE_HALTED
        /\ (QualifyingTick /\ state = VSCOPE_RUNNING /\ request = VSCOPE_HALTED)
            => state' = VSCOPE_HALTED ]_vars

\* C17: with buffer_size as vscopeInit set it, the write cursor stays within
\* 0 .. buffer_size - 1 and every frame is written to a row below buffer_size.
C17_CursorInsideBuffer ==
    /\ [](pc = "run" => (0 <= index /\ index < buffer_size))
    /\ [][ pc = "run"
            => \A r \in Rows : buffer'[r] # buffer[r] => (r = index /\ r < buffer_size) ]_vars

\* Free running on a two-row buffer has wrapped and the cursor is on the last row.
C17_Witness ==
    /\ state = VSCOPE_RUNNING
    /\ buffer_size = 2
    /\ index = buffer_size - 1
    /\ captured = 5
    /\ buffer[1] # ZeroFrame

\* The state changes vscopeAcquire makes.
Transitions ==
    { << VSCOPE_HALTED, VSCOPE_RUNNING >>, << VSCOPE_RUNNING, VSCOPE_HALTED >>,
      << VSCOPE_RUNNING, VSCOPE_ACQUIRING >>, << VSCOPE_ACQUIRING, VSCOPE_HALTED >> }

\* C18: after vscopeInit the state changes only inside a qualifying tick and
\* only Halted -> Running, Running -> Halted, Running -> Acquiring or
\* Acquiring -> Halted; a request of Acquiring leaves a halted engine Halted.
C18_OnlyFourTransitions ==
    [][ /\ (pc = "run" /\ state' # state)
            => QualifyingTick /\ << state, state' >> \in Transitions
        /\ (QualifyingTick /\ state = VSCOPE_HALTED /\ request = VSCOPE_ACQUIRING)
            => state' = VSCOPE_HALTED ]_vars

\* Halted and ticked since an acquisition ended, the request still Acquiring.
C18_Witness ==
    /\ state = VSCOPE_HALTED
    /\ request = VSCOPE_ACQUIRING
    /\ index = 0
    /\ first_element = 1
    /\ captured = 0

\* C19: a qualifying tick that starts in Halted leaves the buffer and
\* first_element alone and the cursor at 0; no other step taken in Halted
\* touches the buffer or first_element.
C19_HaltedCapturesNothing ==
    [][ /\ (QualifyingTick /\ state = VSCOPE_HALTED)
            => /\ buffer' = buffer
               /\ first_element' = first_element
               /\ index' = 0
               /\ sample_no' = sample_no
        /\ (pc = "run" /\ state = VSCOPE_HALTED)
            => buffer' = buffer /\ first_element' = first_element ]_vars

\* A completed capture, still readable after a tick in Halted.
C19_Witness ==
    /\ state = VSCOPE_HALTED
    /\ request = VSCOPE_HALTED
    /\ index = 0
    /\ first_element = 1
    /\ captured = 0
    /\ buffer[0] # ZeroFrame

\* C20: vscopeAcquire never writes request, and a halted engine stays Halted
\* on every qualifying tick whose request is not Running.
C20_AcquireLeavesRequest ==
    [][ /\ vscopeAcquire => request' = request
        /\ (QualifyingTick /\ state = VSCOPE_HALTED /\ request # VSCOPE_RUNNING)
            => state' = VSCOPE_HALTED ]_vars

\* A triggered two-frame acquisition is over and the request still reads Acquiring.
C20_Witness ==
    /\ state = VSCOPE_HALTED
    /\ request = VSCOPE_ACQUIRING
    /\ run_index = 2
    /\ acq_time = 2
    /\ captured = 2
    /\ ~acq_written

\* C14: a set at index i makes a get at i return the value set, and leaves
\* the other parameters and the whole acquisition state as they were; after
\* vscopeInit only a set at i changes what a get at i returns, so ticks,
\* trigger calls and request writes in any acquisition state leave it alone.
C14_RtBufferRoundTrip ==
    [][ /\ \A i \in RtIndexes, v \in RtValues :
            SetRt(i, v)
                => /\ vscopeGetRtBuffer(i)' = v
                   /\ \A j \in RtIndexes \ {i} :
                        vscopeGetRtBuffer(j)' = vscopeGetRtBuffer(j)
                   /\ acquisition' = acquisition
        /\ \A i \in RtIndexes :
            (pc = "run" /\ vscopeGetRtBuffer(i)' # vscopeGetRtBuffer(i))
                => \E v \in RtValues : SetRt(i, v)
        /\ (vscopeAcquire \/ vscopeTrigger) => rt_buffer' = rt_buffer ]_vars

\* A parameter set before the run started still reads back in the middle of
\* an acquisition, next to the other parameter's seed.
C14_Witness ==
    /\ state = VSCOPE_ACQUIRING
    /\ run_index = 1
    /\ vscopeGetRtBuffer("PI_KP") = "2.0f"
    /\ vscopeGetRtBuffer("PI_KI") = "0.1f"

\* C16: once initialised, acq_time equals buffer_size minus the pre-trigger
\* count in every state, also after the host has written the pre-trigger
\* count or the buffer size.
C16_AcqTimeFollowsConfig ==
    pc = "run" => acq_time = buffer_size - pre_trig

\* C13: with acq_time and the divisor left alone during the window, an
\* acquiring engine has between 1 and acq_time frames counted, so at most
\* acq_time qualifying ticks remain, and under repeated ticking it reaches
\* Halted whatever the host writes to request.
C13_AcquiringTerminates ==
    /\ []((pc = "run" /\ state = VSCOPE_ACQUIRING)
            => (1 <= run_index /\ run_index <= acq_time))
    /\ ((pc = "run" /\ state = VSCOPE_ACQUIRING) ~> state = VSCOPE_HALTED)

\* A two-frame window has run to its end although the host asked to run
\* again in the meantime.
C13_Witness ==
    /\ state = VSCOPE_HALTED
    /\ request = VSCOPE_RUNNING
    /\ acq_time = 2
    /\ run_index = 2
    /\ captured = 2
    /\ first_element = index

\* C11: the worked example as written. Buffer of 8, divisor 1, window 8:
\* request = Running and one tick give Running with cursor 1; trigger and one
\* tick give Acquiring, one frame captured, cursor 2, run counter 1; 7 more
\* ticks give Halted, cursor 2, first_element 2.
C11_WorkedExampleAsWritten ==
    /\ (script = 1 /\ state = VSCOPE_RUNNING /\ captured = 0) => index = 1
    /\ (script = 2 /\ state = VSCOPE_ACQUIRING /\ run_index = 1)
        => (captured = 1 /\ index = 2)
    /\ (script = 2 /\ run_index = 8)
        => (state = VSCOPE_HALTED /\ index = 2 /\ first_element = 2)

\* C11 (amended): request = Running and one tick give Running with cursor 0
\* and nothing captured; trigger and one tick give Acquiring, one frame
\* captured, cursor 1, run counter 1; 7 more ticks leave the state Acquiring
\* with run counter 8, all 8 rows written and the cursor wrapped to 0; the
\* tick after that gives Halted with cursor 0 and first_element 0.
C11_WorkedExample ==
    /\ (script = 1 /\ state = VSCOPE_RUNNING /\ captured = 0)
        => (index = 0 /\ \A r \in ExampleRows : buffer[r] = ZeroFrame)
    /\ (script = 2 /\ state = VSCOPE_ACQUIRING /\ run_index = 1)
        => (captured = 1 /\ index = 1)
    /\ (script = 2 /\ state = VSCOPE_ACQUIRING)
        => (run_index \in 1..8 /\ index = run_index % 8)
    /\ (script = 2 /\ state = VSCOPE_ACQUIRING /\ run_index = 8)
        => \A r \in ExampleRows : buffer[r] # ZeroFrame
    /\ (script = 2 /\ state = VSCOPE_HALTED)
        => (run_index = 8 /\ index = 0 /\ first_element = 0)

\* The example has run to its end.
C11_Witness ==
    /\ script = 2
    /\ state = VSCOPE_HALTED
    /\ run_index = 8
    /\ first_element = 0
    /\ buffer[7] # ZeroFrame

====
